---- MODULE Spec2Model ----
(***************************************************************************)
(* The organizational domain tree of backend/core: Domain rows with a      *)
(* parent reference and a materialized path, the save()/delete() handlers  *)
(* that maintain them, and the domain-based access helpers that read them. *)
(*                                                                         *)
(* A path is kept as the sequence of its characters ("/" and decimal       *)
(* digits), so that building a path and prefix matching are the string     *)
(* operations of the source.                                               *)
(***************************************************************************)
EXTENDS Integers, Sequences, FiniteSets, TLC

\* ---------------------------------------------------------------- bounds

\* Ids 1..MaxId are assigned in a database that starts empty.
MaxId == 3
\* The seeded database has one root (id 1) and a sequence standing at
\* SeedNextId: ids 2..SeedNextId-1 were used by domains deleted since.
SeedNextId == 12
\* Number of ids assigned in the seeded database.
MaxSeedCreates == 2
\* Stand-in for Domain.path's max_length (1000 in the source): PostgreSQL
\* rejects a longer value with a DataError.
MaxPathLen == 8
\* Requests that end in an unhandled exception, per behaviour.
MaxFailures == 1
\* Projects and tasks (entities with a PROTECT reference to a domain).
MaxEntities == 2
\* User profiles (SET_NULL reference to a domain).
MaxUsers == 1
\* Concurrent requests of the interleaved specification, and the requests
\* it starts per behaviour.
NumProcs == 2
MaxRequests == 5

None == 0

Entities == 1..MaxEntities
Users == 1..MaxUsers
Procs == 1..NumProcs

VARIABLES
    domains,       \* the Domain table: id -> [parent, path]
    nextId,        \* the table's id sequence
    entityDomain,  \* Project.domain / Task.domain of every entity
    userDomain,    \* UserProfile.domain of every user
    failures,      \* requests that ended in an unhandled exception
    procs,         \* requests in flight (interleaved specification)
    started,       \* requests started (interleaved specification)
    answer         \* what the last call of the access policy returned

vars == <<domains, nextId, entityDomain, userDomain, failures, procs, started, answer>>

\* ------------------------------------------------------------- strings

Digits == <<"0", "1", "2", "3", "4", "5", "6", "7", "8", "9">>

\* str(n) of a positive integer: its decimal digits.
RECURSIVE Str(_)
Str(n) == IF n < 10 THEN <<Digits[n + 1]>>
          ELSE Str(n \div 10) \o <<Digits[(n % 10) + 1]>>

Root == <<"/">>

\* f"{path}{id}/"
\* A variant that forgets the closing delimiter.
NewPath_unclosed(ppath, pid) == ppath \o Str(pid)

NewPath(ppath, pid) == ppath \o Str(pid) \o <<"/">>

\* s.startswith(pre)
StartsWith(s, pre) ==
    /\ Len(pre) <= Len(s)
    /\ SubSeq(s, 1, Len(pre)) = pre

\* Byte order of the characters of a path.
Code(c) == IF c = "/" THEN 0 ELSE (CHOOSE i \in 1..10 : Digits[i] = c)

\* a < b in ORDER BY path.
RECURSIVE PathLess(_, _)
PathLess(a, b) ==
    IF b = <<>> THEN FALSE
    ELSE IF a = <<>> THEN TRUE
    ELSE IF Head(a) # Head(b) THEN Code(Head(a)) < Code(Head(b))
    ELSE PathLess(Tail(a), Tail(b))

\* ------------------------------------------------------------ the table

Stored == DOMAIN domains

Row(p, pa) == [parent |-> p, path |-> pa]

\* The rows of db with row id added or replaced.
Put(db, id, row) ==
    [i \in (DOMAIN db) \cup {id} |-> IF i = id THEN row ELSE db[i]]

\* Orders in which the database may return rows of equal sort key: each
\* gives every row of S a rank.
Perms(S) ==
    {f \in [S -> 1..Cardinality(S)] : \A i, j \in S : f[i] = f[j] => i = j}

Pos(ord, c) == ord[c]

RECURSIVE SortRows(_, _, _)
SortRows(db, S, ord) ==
    IF S = {} THEN <<>>
    ELSE LET first == CHOOSE c \in S : \A d \in S \ {c} :
                          \/ PathLess(db[c].path, db[d].path)
                          \/ /\ db[c].path = db[d].path
                             /\ Pos(ord, c) < Pos(ord, d)
         IN <<first>> \o SortRows(db, S \ {first}, ord)

\* self.children.all(): the rows whose parent is id, in Meta.ordering.
children_all(db, id, ord) ==
    SortRows(db, {c \in DOMAIN db : db[c].parent = id}, ord)

\* ---------------------------------------------------------- Domain.save

NoError == "none"

\* What a save() leaves in the table, the exception it raised and the rows
\* whose path its walk over the children wrote, in the order of the writes.
Result(db, err) == [db |-> db, err |-> err, written |-> <<>>]

Wrote(ids, r) == [r EXCEPT !.written = ids \o @]

\* Domain._update_children_paths of the instance (selfId, selfPath): every
\* child row gets f"{self.path}{self.id}/" and is saved with
\* update_fields=['path'], then repaired in turn, depth first.  The walk
\* stops at the first exception; what was written before it stays written
\* (no transaction surrounds the walk).
RECURSIVE update_children_paths(_, _, _, _)
RECURSIVE visit_children(_, _, _, _, _)

\* A variant that hands every child over to the parent of self.
visit_children_flatten(db, selfId, selfPath, kids, ord) ==
    IF kids = <<>> THEN Result(db, NoError)
    ELSE LET child == Head(kids)
             cpath == selfPath \o Str(selfId) \o <<"/">>
         IN IF child \notin DOMAIN db THEN Result(db, "DatabaseError")
            ELSE IF Len(cpath) > MaxPathLen THEN Result(db, "DataError")
            ELSE LET old_parent == db[child].parent
                     db1 == Put(db, child, Row(db[selfId].parent, cpath))
                 IN IF old_parent # selfId THEN Wrote(<<child>>, Result(db1, "TypeError"))
                    ELSE LET r == Wrote(<<child>>,
                                        update_children_paths(db1, child, cpath, ord))
                         IN IF r.err # NoError THEN r
                            ELSE Wrote(r.written,
                                       visit_children(r.db, selfId, selfPath,
                                                      Tail(kids), ord))

visit_children(db, selfId, selfPath, kids, ord) ==
    IF kids = <<>> THEN Result(db, NoError)
    ELSE LET child == Head(kids)
             cpath == NewPath(selfPath, selfId)
         IN \* child.save(update_fields=['path']): the UPDATE of one column
            IF child \notin DOMAIN db THEN Result(db, "DatabaseError")
            ELSE IF Len(cpath) > MaxPathLen THEN Result(db, "DataError")
            ELSE LET old_parent == db[child].parent
                     db1 == Put(db, child, Row(db[child].parent, cpath))
                 IN \* old_parent != self.parent inside the child's save():
                    \* the second super().save() repeats update_fields
                    IF old_parent # selfId THEN Wrote(<<child>>, Result(db1, "TypeError"))
                    ELSE LET r == Wrote(<<child>>,
                                        update_children_paths(db1, child, cpath, ord))
                         IN IF r.err # NoError THEN r
                            ELSE Wrote(r.written,
                                       visit_children(r.db, selfId, selfPath,
                                                      Tail(kids), ord))

update_children_paths(db, selfId, selfPath, ord) ==
    visit_children(db, selfId, selfPath, children_all(db, selfId, ord), ord)

\* An in-memory Domain instance: its pk (None when unsaved), the parent
\* assigned to it, its own path attribute and its parent object's path
\* attribute, both as they were read.
Instance(pk, parent, path, parent_path) ==
    [pk |-> pk, parent |-> parent, path |-> path, parent_path |-> parent_path]

\* A variant that INSERTs a row for an instance that is stored already.
save_as_new(db, seq, self, ord) ==
    LET new_path == IF self.parent # None
                    THEN self.parent_path \o Str(self.parent) \o <<"/">>
                    ELSE Root
    IN IF Len(new_path) > MaxPathLen THEN Result(db, "DataError")
       ELSE update_children_paths(Put(db, seq, Row(self.parent, new_path)),
                                  seq, new_path, ord)

\* Domain.save() of instance self; seq is the id an INSERT would get.
save(db, seq, self, ord) ==
    LET is_new == self.pk = None
        old_parent == IF self.pk # None /\ self.pk \in DOMAIN db
                      THEN db[self.pk].parent ELSE None
        new_path == IF self.parent # None
                    THEN NewPath(self.parent_path, self.parent)
                    ELSE Root
    IN IF is_new
       THEN IF Len(new_path) > MaxPathLen THEN Result(db, "DataError")
            ELSE update_children_paths(Put(db, seq, Row(self.parent, new_path)),
                                       seq, new_path, ord)
       ELSE LET db1 == Put(db, self.pk, Row(self.parent, self.path))
            IN IF old_parent = self.parent THEN Result(db1, NoError)
               ELSE IF Len(new_path) > MaxPathLen THEN Result(db1, "DataError")
               ELSE update_children_paths(
                        Put(db1, self.pk, Row(self.parent, new_path)),
                        self.pk, new_path, ord)

\* The order of equal sort keys decides only which rows were written before
\* a walk stopped early: a save() that raises nothing has one outcome.
IdOrder(S) == [i \in S |-> i]

\* The outcomes of Domain.save() over the orders the database may use.
save_outcomes(db, seq, self) ==
    LET S == (DOMAIN db) \cup {seq}
        r0 == save(db, seq, self, IdOrder(S))
    IN IF r0.err = NoError THEN {r0}
       ELSE {save(db, seq, self, ord) : ord \in Perms(S)}

\* -------------------------------------------------------- Domain.delete

\* A CASCADE that stops at the children of the deleted rows.
cascade_children(db, S) == S \cup {c \in DOMAIN db : db[c].parent \in S}

\* The rows a delete collects through parent's on_delete=CASCADE: the
\* closure of S under "is a child of".
RECURSIVE cascade(_, _)
cascade(db, S) ==
    LET more == S \cup {c \in DOMAIN db : db[c].parent \in S}
    IN IF more = S THEN S ELSE cascade(db, more)

\* A PROTECT that looks at the deleted row alone.
protected_direct(db, ed, x) == {e \in Entities : ed[e] = x}

\* The projects and tasks whose on_delete=PROTECT reference stops the
\* delete of x: those that reference a collected row.
protected_objects(db, ed, x) ==
    {e \in Entities : ed[e] # None /\ ed[e] \in cascade(db, {x})}

\* ------------------------------------------------------ hierarchy queries

\* A variant that takes a node for an ancestor of itself.
is_ancestor_of_or_self(db, a, b) ==
    a = b \/ StartsWith(db[b].path, db[a].path \o Str(a) \o <<"/">>)

\* a.is_ancestor_of(b) on the rows of a and b.
is_ancestor_of(db, a, b) ==
    StartsWith(db[b].path, NewPath(db[a].path, a))

\* The decimal number a string of digits denotes: int(id).
RECURSIVE Val(_)
Val(s) ==
    IF s = <<>> THEN 0
    ELSE Val(SubSeq(s, 1, Len(s) - 1)) * 10 + (Code(s[Len(s)]) - 1)

\* path.strip('/').split('/') without the empty pieces; cur is the piece
\* being read.
RECURSIVE Split(_, _)
Split(s, cur) ==
    LET done == IF cur = <<>> THEN <<>> ELSE <<cur>>
    IN IF s = <<>> THEN done
       ELSE IF Head(s) = "/" THEN done \o Split(Tail(s), <<>>)
       ELSE Split(Tail(s), Append(cur, Head(s)))

path_ids(path) ==
    LET pieces == Split(path, <<>>)
    IN [i \in 1..Len(pieces) |-> Val(pieces[i])]

\* n.get_ancestors(): no row when n has no parent, else the rows whose id
\* is one of the ids in n.path, in the order of Meta.ordering.
get_ancestors(db, n, ord) ==
    IF db[n].parent = None THEN <<>>
    ELSE SortRows(db, {d \in DOMAIN db :
                          \E i \in DOMAIN path_ids(db[n].path) :
                              path_ids(db[n].path)[i] = d}, ord)

\* n.get_descendants(): the rows whose path starts with n.path + n.id + "/",
\* in the order of Meta.ordering.
get_descendants(db, n, ord) ==
    SortRows(db, {d \in DOMAIN db : StartsWith(db[d].path, NewPath(db[n].path, n))}, ord)

\* A variant that leaves n's own id out.
get_all_descendant_ids_without_self(db, n, ord) == get_descendants(db, n, ord)

\* n.get_all_descendant_ids(): the ids of get_descendants() followed by
\* n's own id.
get_all_descendant_ids(db, n, ord) == get_descendants(db, n, ord) \o <<n>>

\* A variant with the two nodes exchanged.
is_descendant_of_swapped(db, a, b) ==
    StartsWith(db[b].path, db[a].path \o Str(a) \o <<"/">>)

\* a.is_descendant_of(b) on the rows of a and b.
is_descendant_of(db, a, b) ==
    StartsWith(db[a].path, NewPath(db[b].path, b))

\* ---------------------------------------------------------- domain_utils

\* A request's user: is_staff and the domain of the profile (None when the
\* user has no profile or the profile no domain).
Caller(is_staff, domain) == [is_staff |-> is_staff, domain |-> domain]

get_user_domain(user) == user.domain

\* A variant that lets a user without a domain in.
user_can_access_domain_open(db, user, domain) ==
    IF user.is_staff THEN TRUE
    ELSE LET user_domain == user.domain
         IN IF user_domain = None THEN TRUE
            ELSE IF user_domain = domain THEN TRUE
            ELSE StartsWith(db[domain].path, db[user_domain].path \o Str(user_domain) \o <<"/">>)

user_can_access_domain(db, user, domain) ==
    IF user.is_staff THEN TRUE
    ELSE LET user_domain == get_user_domain(user)
         IN IF user_domain = None THEN FALSE
            ELSE IF user_domain = domain THEN TRUE
            ELSE is_ancestor_of(db, user_domain, domain)

get_user_accessible_domain_ids(db, user, ord) ==
    LET user_domain == get_user_domain(user)
    IN IF user_domain = None THEN <<>>
       ELSE get_all_descendant_ids(db, user_domain, ord)

Range(s) == {s[i] : i \in 1..Len(s)}

\* A variant that keeps the rows without a domain.
filter_by_domain_keep_null(db, ed, queryset, user, ord) ==
    IF user.is_staff THEN queryset
    ELSE LET accessible_domain_ids == get_user_accessible_domain_ids(db, user, ord)
         IN IF accessible_domain_ids = <<>> THEN <<>>
            ELSE SelectSeq(queryset,
                     LAMBDA e : ed[e] = None \/ ed[e] \in Range(accessible_domain_ids))

\* A queryset of projects or tasks is a sequence of rows without
\* repetition; ed gives the domain of every row.
filter_by_domain(db, ed, queryset, user, ord) ==
    IF user.is_staff THEN queryset
    ELSE LET accessible_domain_ids == get_user_accessible_domain_ids(db, user, ord)
         IN IF accessible_domain_ids = <<>> THEN <<>>
            ELSE SelectSeq(queryset,
                     LAMBDA e : ed[e] # None /\ ed[e] \in Range(accessible_domain_ids))

\* A variant that tests the entity's domain before is_staff.
user_can_access_entity_domain_first(db, ed, user, entity) ==
    IF ed[entity] = None THEN FALSE
    ELSE IF user.is_staff THEN TRUE
    ELSE user_can_access_domain(db, user, ed[entity])

\* A variant that takes an entity without a domain as everyone's.
user_can_access_entity_open(db, ed, user, entity) ==
    IF user.is_staff THEN TRUE
    ELSE IF ed[entity] = None THEN TRUE
    ELSE user_can_access_domain(db, user, ed[entity])

user_can_access_entity(db, ed, user, entity) ==
    IF user.is_staff THEN TRUE
    ELSE LET entity_domain == ed[entity]
         IN IF entity_domain = None THEN FALSE
            ELSE user_can_access_domain(db, user, entity_domain)

\* ------------------------------------------------------------- requests

AllIds == (1..MaxId) \cup (SeedNextId..(SeedNextId + MaxSeedCreates - 1))

Outcome(err) == IF err = NoError THEN "ok" ELSE err

\* What a request answers and leaves behind: the table, the entities' and
\* the users' domains, the outcome and, for a refused delete, the number of
\* blocking objects.
Response(db, ed, ud, outcome, count) ==
    [db |-> db, ed |-> ed, ud |-> ud, outcome |-> outcome, count |-> count]

\* A variant that saves a parent that is not stored (as a root) and then
\* the new node under it.
perform_create_saves_parent(db, ed, ud, seq, p) ==
    IF p # None /\ p \notin DOMAIN db
    THEN {Response(Put(Put(db, p, Row(None, Root)), seq,
                       Row(p, Root \o Str(p) \o <<"/">>)), ed, ud, "ok", 0)}
    ELSE {Response(r.db, ed, ud, Outcome(r.err), 0) :
             r \in save_outcomes(db, seq,
                     Instance(None, p, <<>>,
                              IF p = None THEN <<>> ELSE db[p].path))}

\* POST /api/domains/ with parent = p: the serializer resolves parent, then
\* Domain.save() of a new instance.  The possible responses.
perform_create(db, ed, ud, seq, p) ==
    IF p # None /\ p \notin DOMAIN db
    THEN {Response(db, ed, ud, "NotFound", 0)}
    ELSE {Response(r.db, ed, ud, Outcome(r.err), 0) :
             r \in save_outcomes(db, seq,
                     Instance(None, p, <<>>,
                              IF p = None THEN <<>> ELSE db[p].path))}

\* PATCH /api/domains/x/ with parent = p: get_object(), the serializer
\* resolves and assigns parent, then Domain.save().  The possible responses.
perform_update(db, ed, ud, seq, x, p) ==
    IF p # None /\ p \notin DOMAIN db
    THEN {Response(db, ed, ud, "NotFound", 0)}
    ELSE {Response(r.db, ed, ud, Outcome(r.err), 0) :
             r \in save_outcomes(db, seq,
                     Instance(x, p, db[x].path,
                              IF p = None THEN <<>> ELSE db[p].path))}

\* A variant that counts the referenced domains, not the referencing
\* objects.
perform_destroy_counts_domains(db, ed, ud, x) ==
    LET dead == cascade(db, {x})
        prot == protected_objects(db, ed, x)
    IN IF prot # {}
       THEN Response(db, ed, ud, "Blocked", Cardinality({ed[e] : e \in prot}))
       ELSE Response([i \in (DOMAIN db) \ dead |-> db[i]], ed,
                     [u \in Users |-> IF ud[u] \in dead THEN None ELSE ud[u]],
                     "ok", 0)

\* A variant that leaves the users of a deleted domain as they are.
perform_destroy_keeps_users(db, ed, ud, x) ==
    LET dead == cascade(db, {x})
        prot == protected_objects(db, ed, x)
    IN IF prot # {}
       THEN Response(db, ed, ud, "Blocked", Cardinality(prot))
       ELSE Response([i \in (DOMAIN db) \ dead |-> db[i]], ed, ud, "ok", 0)

\* DELETE /api/domains/x/: instance.delete() in one transaction; a
\* ProtectedError becomes a validation error carrying the count.
perform_destroy(db, ed, ud, x) ==
    LET dead == cascade(db, {x})
        prot == protected_objects(db, ed, x)
    IN IF prot # {}
       THEN Response(db, ed, ud, "Blocked", Cardinality(prot))
       ELSE Response([i \in (DOMAIN db) \ dead |-> db[i]], ed,
                     [u \in Users |-> IF ud[u] \in dead THEN None ELSE ud[u]],
                     "ok", 0)

\* An exception of save() is not handled by the view: the request fails
\* with what was written so far left in the table.
Crashed(outcome) == outcome \notin {"ok", "NotFound", "Blocked"}

Served(outcome) ==
    LET n == IF Crashed(outcome) THEN 1 ELSE 0
    IN /\ failures + n <= MaxFailures
       /\ failures' = failures + n

Idle == [pc |-> "idle"]

\* No call of the access policy has returned yet.
NoAnswer == [call |-> "none"]

Create(p) ==
    /\ nextId \in AllIds
    /\ \E r \in perform_create(domains, entityDomain, userDomain, nextId, p) :
          /\ Served(r.outcome)
          /\ domains' = r.db
          /\ entityDomain' = r.ed
          /\ userDomain' = r.ud
          /\ nextId' = IF r.outcome = "NotFound" THEN nextId ELSE nextId + 1
    /\ UNCHANGED <<procs, started, answer>>

Move(x, p) ==
    /\ x \in Stored
    /\ \E r \in perform_update(domains, entityDomain, userDomain, nextId, x, p) :
          /\ Served(r.outcome)
          /\ domains' = r.db
          /\ entityDomain' = r.ed
          /\ userDomain' = r.ud
    /\ UNCHANGED <<nextId, procs, started, answer>>

Delete(x) ==
    /\ x \in Stored
    /\ LET r == perform_destroy(domains, entityDomain, userDomain, x)
       IN /\ domains' = r.db
          /\ entityDomain' = r.ed
          /\ userDomain' = r.ud
    /\ UNCHANGED <<nextId, failures, procs, started, answer>>

\* A project or task is saved with domain d.
assign_entity_domain(e, d) ==
    /\ entityDomain[e] # d
    /\ entityDomain' = [entityDomain EXCEPT ![e] = d]
    /\ UNCHANGED <<domains, nextId, userDomain, failures, procs, started, answer>>

\* A user's profile is saved with domain d.
assign_user_domain(u, d) ==
    /\ userDomain[u] # d
    /\ userDomain' = [userDomain EXCEPT ![u] = d]
    /\ UNCHANGED <<domains, nextId, entityDomain, failures, procs, started, answer>>

\* ------------------------------------------------------- specification

EmptyTable == [i \in {} |-> Row(None, Root)]

Init ==
    /\ \/ domains = EmptyTable /\ nextId = 1
       \/ domains = [i \in {1} |-> Row(None, Root)] /\ nextId = SeedNextId
    /\ entityDomain = [e \in Entities |-> None]
    /\ userDomain = [u \in Users |-> None]
    /\ failures = 0
    /\ procs = [p \in Procs |-> Idle]
    /\ started = 0
    /\ answer = NoAnswer

Next ==
    \/ \E p \in AllIds \cup {None} : Create(p)
    \/ \E x \in Stored, p \in AllIds \cup {None} : Move(x, p)
    \/ \E x \in Stored : Delete(x)
    \/ \E e \in Entities, d \in Stored \cup {None} : assign_entity_domain(e, d)
    \/ \E u \in Users, d \in Stored \cup {None} : assign_user_domain(u, d)

Spec == Init /\ [][Next]_vars

\* ------------------------------------------------- the tree, structurally

\* The nodes reached from n by following parent references one or more
\* times.
RECURSIVE Up(_, _, _)
Up(db, n, seen) ==
    LET p == db[n].parent
    IN IF p = None \/ p \notin DOMAIN db \/ p \in seen THEN seen
       ELSE Up(db, p, seen \cup {p})

AncestorsOf(db, n) == Up(db, n, {})

DescendantsOf(db, x) == {d \in DOMAIN db : x \in AncestorsOf(db, d)}

Subtree(db, x) == {x} \cup DescendantsOf(db, x)

\* I1 of node n in table db.
PathCorrect(db, n) ==
    IF db[n].parent = None THEN db[n].path = Root
    ELSE /\ db[n].parent \in DOMAIN db
         /\ db[n].path = db[db[n].parent].path \o Str(db[n].parent) \o <<"/">>

WellFormed(db) ==
    \A n \in DOMAIN db : PathCorrect(db, n) /\ n \notin AncestorsOf(db, n)

\* The ids on the parent chain strictly between x and its descendant d, from
\* x down, each followed by the delimiter.
RECURSIVE Chain(_, _, _)
Chain(db, x, d) ==
    IF db[d].parent = x THEN <<>>
    ELSE Chain(db, x, db[d].parent) \o Str(db[d].parent) \o <<"/">>

Referenced(db, ed, x) == \E e \in Entities : ed[e] # None /\ ed[e] \in Subtree(db, x)

\* The parent chain of n from the root down to n's parent.
RECURSIVE ChainDown(_, _, _)
ChainDown(db, n, seen) ==
    LET p == db[n].parent
    IN IF p = None \/ p \notin DOMAIN db \/ p \in seen THEN <<>>
       ELSE ChainDown(db, p, seen \cup {p}) \o <<p>>

\* How many times d occurs in the sequence s.
Times(s, d) == Cardinality({i \in 1..Len(s) : s[i] = d})

\* The users of the system as callers, staff or not.
Callers == {Caller(s, userDomain[u]) : s \in BOOLEAN, u \in Users}

\* The querysets over the stored projects and tasks, in id order.
RECURSIVE InOrder(_)
InOrder(S) ==
    IF S = {} THEN <<>>
    ELSE LET m == CHOOSE e \in S : \A f \in S : e <= f
         IN <<m>> \o InOrder(S \ {m})

Querysets == {InOrder(S) : S \in SUBSET Entities}

\* ------------------------------------------- the interleaved specification
\* Requests run concurrently, one database statement per step: the source
\* opens no transaction around save() and takes no lock, so every state a
\* statement leaves behind is a state another request can read.  The
\* requests started here are those the code serves without error when they
\* run alone.

\* A frame of _update_children_paths: the instance whose children are being
\* rewritten, its path attribute, the children still to visit (once the
\* queryset was evaluated).
Frame(self, path, kids, queried) ==
    [self |-> self, path |-> path, kids |-> kids, queried |-> queried]

Working(pc, op, x, parent, path, parent_path, old_parent, stack) ==
    [pc |-> pc, op |-> op, x |-> x, parent |-> parent, path |-> path,
     parent_path |-> parent_path, old_parent |-> old_parent, stack |-> stack]

At(pr, pc) == procs[pr].pc = pc

\* The frames whose loop still has work, innermost last.
RECURSIVE Unwind(_)
Unwind(stack) ==
    IF stack = <<>> THEN <<>>
    ELSE LET top == stack[Len(stack)]
         IN IF top.queried /\ top.kids = <<>>
            THEN Unwind(SubSeq(stack, 1, Len(stack) - 1))
            ELSE stack

\* The request of pr goes on with the frames left, or returns.
Continue(pr, stack) ==
    LET rest == Unwind(stack)
    IN procs' = [procs EXCEPT ![pr] =
                    IF rest = <<>> THEN Idle
                    ELSE [procs[pr] EXCEPT !.pc = "repair", !.stack = rest]]

\* The request of pr ends in an unhandled exception.
Crash(pr) ==
    /\ failures < MaxFailures
    /\ failures' = failures + 1
    /\ procs' = [procs EXCEPT ![pr] = Idle]

Inserting == {pr \in Procs : procs[pr].pc = "insert"}

\* POST: the serializer resolves parent p (reading its row).
BeginCreate(pr, p) ==
    /\ At(pr, "idle")
    /\ started < MaxRequests
    /\ nextId + Cardinality(Inserting) <= MaxId
    /\ p \in Stored \cup {None}
    /\ procs' = [procs EXCEPT ![pr] =
           Working("insert", "create", None, p, <<>>,
                   IF p = None THEN <<>> ELSE domains[p].path, None, <<>>)]
    /\ started' = started + 1
    /\ UNCHANGED <<domains, nextId, entityDomain, userDomain, failures, answer>>

\* save() of the new instance: path from the parent as read, the INSERT,
\* then _update_children_paths.
Insert(pr) ==
    /\ At(pr, "insert")
    /\ LET me == procs[pr]
           new_path == IF me.parent # None
                       THEN NewPath(me.parent_path, me.parent) ELSE Root
       IN IF Len(new_path) > MaxPathLen
          THEN Crash(pr) /\ nextId' = nextId + 1 /\ UNCHANGED domains
          ELSE /\ domains' = Put(domains, nextId, Row(me.parent, new_path))
               /\ nextId' = nextId + 1
               /\ procs' = [procs EXCEPT ![pr] =
                      [me EXCEPT !.pc = "repair", !.x = nextId,
                                 !.stack = <<Frame(nextId, new_path, <<>>, FALSE)>>]]
               /\ UNCHANGED failures
    /\ UNCHANGED <<entityDomain, userDomain, started, answer>>

\* PATCH: get_object() reads row x, the serializer resolves parent p
\* (reading its row) and assigns it to the instance.
BeginMove(pr, x, p) ==
    /\ At(pr, "idle")
    /\ started < MaxRequests
    /\ x \in Stored
    /\ p \in Stored \cup {None}
    /\ p \notin Subtree(domains, x)
    /\ procs' = [procs EXCEPT ![pr] =
           Working("read_old", "move", x, p, domains[x].path,
                   IF p = None THEN <<>> ELSE domains[p].path, None, <<>>)]
    /\ started' = started + 1
    /\ UNCHANGED <<domains, nextId, entityDomain, userDomain, failures, answer>>

\* save(): old_instance = Domain.objects.get(pk=self.pk).
ReadOld(pr) ==
    /\ At(pr, "read_old")
    /\ procs' = [procs EXCEPT ![pr] =
           [procs[pr] EXCEPT !.pc = "write",
                             !.old_parent = domains[procs[pr].x].parent]]
    /\ UNCHANGED <<domains, nextId, entityDomain, userDomain, failures, started, answer>>

\* save(): super().save() writes every field of the instance, the new
\* parent and the path attribute as it was read.
Write(pr) ==
    /\ At(pr, "write")
    /\ LET me == procs[pr]
       IN /\ domains' = Put(domains, me.x, Row(me.parent, me.path))
          /\ procs' = [procs EXCEPT ![pr] =
                 IF me.old_parent # me.parent
                 THEN [me EXCEPT !.pc = "write_path"] ELSE Idle]
    /\ UNCHANGED <<nextId, entityDomain, userDomain, failures, started, answer>>

\* save(): self.path = new_path; super().save(update_fields=['path']), then
\* _update_children_paths.
WritePath(pr) ==
    /\ At(pr, "write_path")
    /\ LET me == procs[pr]
           new_path == IF me.parent # None
                       THEN NewPath(me.parent_path, me.parent) ELSE Root
       IN IF Len(new_path) > MaxPathLen
          THEN Crash(pr) /\ UNCHANGED domains
          ELSE /\ domains' = Put(domains, me.x, Row(domains[me.x].parent, new_path))
               /\ procs' = [procs EXCEPT ![pr] =
                      [me EXCEPT !.pc = "repair",
                                 !.stack = <<Frame(me.x, new_path, <<>>, FALSE)>>]]
               /\ UNCHANGED failures
    /\ UNCHANGED <<nextId, entityDomain, userDomain, started, answer>>

\* _update_children_paths: the queryset self.children.all() is evaluated.
Query(pr) ==
    /\ At(pr, "repair")
    /\ LET me == procs[pr]
           n == Len(me.stack)
           top == me.stack[n]
       IN /\ ~top.queried
          /\ \E ord \in Perms(Stored) :
                Continue(pr, [me.stack EXCEPT ![n] =
                    Frame(top.self, top.path,
                          children_all(domains, top.self, ord), TRUE)])
    /\ UNCHANGED <<domains, nextId, entityDomain, userDomain, failures, started, answer>>

\* child.save(update_fields=['path']): old_instance is read.
ChildReadOld(pr) ==
    /\ At(pr, "repair")
    /\ LET me == procs[pr]
           top == me.stack[Len(me.stack)]
       IN /\ top.queried
          /\ procs' = [procs EXCEPT ![pr] =
                 [me EXCEPT !.pc = "child_write",
                            !.old_parent = domains[Head(top.kids)].parent]]
    /\ UNCHANGED <<domains, nextId, entityDomain, userDomain, failures, started, answer>>

\* child.save(update_fields=['path']): the UPDATE of the child's path; the
\* second super().save() when the parent read differs from self; then
\* child._update_children_paths().
ChildWrite(pr) ==
    /\ At(pr, "child_write")
    /\ LET me == procs[pr]
           n == Len(me.stack)
           top == me.stack[n]
           child == Head(top.kids)
           cpath == NewPath(top.path, top.self)
       IN IF Len(cpath) > MaxPathLen
          THEN Crash(pr) /\ UNCHANGED domains
          ELSE /\ domains' = Put(domains, child, Row(domains[child].parent, cpath))
               /\ IF me.old_parent # top.self
                  THEN Crash(pr)
                  ELSE /\ Continue(pr,
                              [me.stack EXCEPT ![n] =
                                  Frame(top.self, top.path, Tail(top.kids), TRUE)]
                              \o <<Frame(child, cpath, <<>>, FALSE)>>)
                       /\ UNCHANGED failures
    /\ UNCHANGED <<nextId, entityDomain, userDomain, started, answer>>

InitConc ==
    /\ domains = EmptyTable
    /\ nextId = 1
    /\ entityDomain = [e \in Entities |-> None]
    /\ userDomain = [u \in Users |-> None]
    /\ failures = 0
    /\ procs = [p \in Procs |-> Idle]
    /\ started = 0
    /\ answer = NoAnswer

NextConc ==
    \/ \E pr \in Procs, p \in Stored \cup {None} : BeginCreate(pr, p)
    \/ \E pr \in Procs : Insert(pr)
    \/ \E pr \in Procs, x \in Stored, p \in Stored \cup {None} : BeginMove(pr, x, p)
    \/ \E pr \in Procs : ReadOld(pr)
    \/ \E pr \in Procs : Write(pr)
    \/ \E pr \in Procs : WritePath(pr)
    \/ \E pr \in Procs : Query(pr)
    \/ \E pr \in Procs : ChildReadOld(pr)
    \/ \E pr \in Procs : ChildWrite(pr)

SpecConc == InitConc /\ [][NextConc]_vars

\* ------------------------------------------------ the access policy alone
\* The functions of domain_utils called on a table that creates and moves
\* have built: what a call returns and what it leaves in the database.

Evaluated(db, ed, ud, call, value) ==
    [db |-> db, ed |-> ed, ud |-> ud, answer |-> [call |-> call, value |-> value]]

call_user_can_access_domain(db, ed, ud, user, d) ==
    Evaluated(db, ed, ud, "user_can_access_domain", user_can_access_domain(db, user, d))

call_get_user_accessible_domain_ids(db, ed, ud, user, ord) ==
    Evaluated(db, ed, ud, "get_user_accessible_domain_ids",
              get_user_accessible_domain_ids(db, user, ord))

\* A variant that gives the rows without a domain the caller's domain.
call_filter_by_domain_tagging(db, ed, ud, queryset, user, ord) ==
    Evaluated(db,
              [e \in Entities |->
                  IF ed[e] = None /\ e \in Range(queryset) THEN user.domain ELSE ed[e]],
              ud, "filter_by_domain", filter_by_domain(db, ed, queryset, user, ord))

call_filter_by_domain(db, ed, ud, queryset, user, ord) ==
    Evaluated(db, ed, ud, "filter_by_domain",
              filter_by_domain(db, ed, queryset, user, ord))

call_user_can_access_entity(db, ed, ud, user, e) ==
    Evaluated(db, ed, ud, "user_can_access_entity",
              user_can_access_entity(db, ed, user, e))

Returns(r) ==
    /\ domains' = r.db
    /\ entityDomain' = r.ed
    /\ userDomain' = r.ud
    /\ answer' = r.answer
    /\ UNCHANGED <<nextId, failures, procs, started>>

CanAccessDomain(caller, d) ==
    Returns(call_user_can_access_domain(domains, entityDomain, userDomain, caller, d))

AccessibleDomainIds(caller, ord) ==
    Returns(call_get_user_accessible_domain_ids(domains, entityDomain, userDomain,
                                                caller, ord))

FilterByDomain(queryset, caller, ord) ==
    Returns(call_filter_by_domain(domains, entityDomain, userDomain, queryset,
                                  caller, ord))

CanAccessEntity(caller, e) ==
    Returns(call_user_can_access_entity(domains, entityDomain, userDomain, caller, e))

\* The ids of the tables the policy is called on.
EvalIds == {1, 2, SeedNextId}

\* The path save() gives node n when parents are as in par (no cycle).
RECURSIVE PathOf(_, _)
PathOf(par, n) ==
    IF par[n] = None THEN Root ELSE NewPath(PathOf(par, par[n]), par[n])

Parents ==
    {par \in UNION {[S -> S \cup {None}] : S \in SUBSET EvalIds} :
        LET db == [n \in DOMAIN par |-> Row(par[n], Root)]
        IN \A n \in DOMAIN par : n \notin AncestorsOf(db, n)}

Tables == {[n \in DOMAIN par |-> Row(par[n], PathOf(par, n))] : par \in Parents}

InitEval ==
    /\ domains \in Tables
    /\ nextId = SeedNextId + 1
    /\ entityDomain \in [Entities -> (DOMAIN domains) \cup {None}]
    /\ userDomain \in [Users -> (DOMAIN domains) \cup {None}]
    /\ failures = 0
    /\ procs = [p \in Procs |-> Idle]
    /\ started = 0
    /\ answer = NoAnswer

NextEval ==
    \/ \E caller \in Callers, d \in Stored : CanAccessDomain(caller, d)
    \/ \E caller \in Callers, ord \in Perms(Stored) : AccessibleDomainIds(caller, ord)
    \/ \E caller \in Callers, queryset \in Querysets, ord \in Perms(Stored) :
          FilterByDomain(queryset, caller, ord)
    \/ \E caller \in Callers, e \in Entities : CanAccessEntity(caller, e)

SpecEval == InitEval /\ [][NextEval]_vars

\* ------------------------------------------------------------ the claims

\* C1: after any sequence of create, move and delete requests served one
\* at a time, every stored node has the root marker as path when it has no
\* parent and its parent's path + id + "/" otherwise.
C1_PathCorrectness == \A n \in Stored : PathCorrect(domains, n)

\* C2: a move of x under x itself or under one of its descendants is
\* refused with InvalidHierarchy and leaves every parent and path as it was.
C2_CycleRejected ==
    \A x \in Stored : \A y \in Subtree(domains, x) :
        \A r \in perform_update(domains, entityDomain, userDomain, nextId, x, y) :
            r.outcome = "InvalidHierarchy" /\ r.db = domains

\* C3: in every reachable state no node is reached from itself by following
\* parent references.
C3_Acyclic == \A n \in Stored : n \notin AncestorsOf(domains, n)

\* C4: while a move of x is in progress and the stored parent reference of
\* x is already the new one, the stored path of x and of every descendant
\* of x is the one derived from its parent (no reader can see a parent
\* changed with a path not yet repaired).
C4_MoveAtomic ==
    \A pr \in Procs :
        LET me == procs[pr]
        IN (/\ me.pc \in {"write_path", "repair", "child_write"}
            /\ me.op = "move"
            /\ me.x \in Stored
            /\ domains[me.x].parent = me.parent
            /\ me.old_parent # me.parent)
           => \A n \in Subtree(domains, me.x) : PathCorrect(domains, n)

\* C5: once every concurrent create and move has completed without error,
\* every stored node's path is the one derived from its parent.
C5_WritesSerialized ==
    ((\A pr \in Procs : procs[pr].pc = "idle") /\ failures = 0)
        => \A n \in Stored : PathCorrect(domains, n)

\* C6: when a move of x under p returns, x's path is the one derived from p
\* (the root marker when p is absent) and every node that was a descendant
\* of x has x's new path + x.id + "/" + the unchanged chain of ids between
\* x and it as its path.
C6_MoveRepairsSubtree ==
    \A x \in Stored : \A p \in Stored \cup {None} :
        \A r \in perform_update(domains, entityDomain, userDomain, nextId, x, p) :
            r.outcome = "ok" =>
                /\ r.db[x].path = IF p = None THEN Root ELSE NewPath(r.db[p].path, p)
                /\ \A d \in DescendantsOf(domains, x) \ {x} :
                      r.db[d].path = NewPath(r.db[x].path, x) \o Chain(domains, x, d)

\* C7: a.is_ancestor_of(b) is true exactly when a is reached from b by
\* following parent references one or more times.
C7_PathAncestry ==
    \A a, b \in Stored :
        is_ancestor_of(domains, a, b) <=> a \in AncestorsOf(domains, b)

\* C8: a non-admin caller with home domain h can access d exactly when d is
\* h or h is an ancestor of d; never an ancestor of h, a sibling of h or a
\* node of another tree.
C8_DownwardOnly ==
    \A u \in Users : userDomain[u] # None =>
        LET h == userDomain[u]
            caller == Caller(FALSE, h)
        IN \A d \in Stored :
              /\ user_can_access_domain(domains, caller, d)
                    <=> (d = h \/ h \in AncestorsOf(domains, d))
              /\ (d # h /\ h \notin AncestorsOf(domains, d))
                    => ~user_can_access_domain(domains, caller, d)

\* C9: a delete of x while a project or task references x or a descendant
\* of x is refused with Blocked and leaves every node, every entity
\* reference and every user's domain as it was.
C9_DeleteBlocked ==
    \A x \in Stored : Referenced(domains, entityDomain, x) =>
        LET r == perform_destroy(domains, entityDomain, userDomain, x)
        IN /\ r.outcome = "Blocked"
           /\ r.db = domains
           /\ r.ed = entityDomain
           /\ r.ud = userDomain

C9_Witness ==
    \E x \in Stored :
        /\ \A e \in Entities : entityDomain[e] # x
        /\ Referenced(domains, entityDomain, x)
        /\ Subtree(domains, x) # Stored
        /\ perform_destroy(domains, entityDomain, userDomain, x).outcome = "Blocked"

\* C10: a delete of x while no project or task references x or a
\* descendant of x removes exactly x and its descendants and leaves every
\* other node stored with its parent and path.
C10_DeleteCascades ==
    \A x \in Stored : ~Referenced(domains, entityDomain, x) =>
        LET r == perform_destroy(domains, entityDomain, userDomain, x)
        IN /\ r.outcome = "ok"
           /\ DOMAIN r.db = Stored \ Subtree(domains, x)
           /\ \A n \in DOMAIN r.db : r.db[n] = domains[n]

C10_Witness ==
    \E x \in Stored :
        /\ ~Referenced(domains, entityDomain, x)
        /\ Cardinality(DescendantsOf(domains, x) \ {x}) >= 2
        /\ \E d \in DescendantsOf(domains, x) : domains[d].parent # x
        /\ perform_destroy(domains, entityDomain, userDomain, x).outcome = "ok"

\* C11: a delete of x while x or a descendant of x is the home domain of a
\* user, and no project or task references the subtree, is refused with
\* Blocked, deletes nothing and changes no user's home domain.
C11_UsersBlock ==
    \A x \in Stored :
        (/\ \E u \in Users : userDomain[u] # None /\ userDomain[u] \in Subtree(domains, x)
         /\ ~Referenced(domains, entityDomain, x))
        => LET r == perform_destroy(domains, entityDomain, userDomain, x)
           IN /\ r.outcome = "Blocked"
              /\ r.db = domains
              /\ r.ud = userDomain

\* C12: for a non-admin caller with home domain h, the accessible domain
\* ids are h and every node reached from h through child edges, each once,
\* and nothing else (no ancestor, no sibling, no node of another tree).
C12_AccessibleIdsExact ==
    \A caller \in Callers : (~caller.is_staff /\ caller.domain # None) =>
        \A ord \in Perms(Stored) :
            LET ids == get_user_accessible_domain_ids(domains, caller, ord)
            IN /\ Range(ids) = Subtree(domains, caller.domain)
               /\ \A i, j \in 1..Len(ids) : ids[i] = ids[j] => i = j

\* C13: for a non-admin caller with a home domain, filter_by_domain returns
\* exactly the rows of the queryset whose domain is one of the caller's
\* accessible domain ids, in the queryset's order; rows without a domain
\* are left out and no row is added or repeated.
C13_FilterExact ==
    \A caller \in Callers : (~caller.is_staff /\ caller.domain # None) =>
        \A queryset \in Querysets : \A ord \in Perms(Stored) :
            LET out == filter_by_domain(domains, entityDomain, queryset, caller, ord)
                ids == Range(get_user_accessible_domain_ids(domains, caller, ord))
            IN /\ out = SelectSeq(queryset,
                            LAMBDA e : entityDomain[e] # None /\ entityDomain[e] \in ids)
               /\ \A e \in Range(out) : e \in Range(queryset) /\ entityDomain[e] # None
               /\ \A i, j \in 1..Len(out) : out[i] = out[j] => i = j

C13_Witness ==
    \E caller \in Callers : \E e1, e2 \in Entities :
        /\ ~caller.is_staff /\ caller.domain # None
        /\ WellFormed(domains)
        /\ entityDomain[e1] = None
        /\ entityDomain[e2] \in DescendantsOf(domains, caller.domain)
        /\ filter_by_domain(domains, entityDomain, InOrder({e1, e2}), caller,
                            IdOrder(Stored)) = <<e2>>

\* C14: for a non-admin caller without a home domain the accessible domain
\* ids are empty, filter_by_domain of every queryset is empty and
\* user_can_access_domain is false for every domain.
C14_DomainlessSeeNothing ==
    \A caller \in Callers : (~caller.is_staff /\ caller.domain = None) =>
        /\ \A ord \in Perms(Stored) :
              /\ get_user_accessible_domain_ids(domains, caller, ord) = <<>>
              /\ \A queryset \in Querysets :
                    filter_by_domain(domains, entityDomain, queryset, caller, ord) = <<>>
        /\ \A d \in Stored : ~user_can_access_domain(domains, caller, d)

C14_Witness ==
    /\ \E u \in Users : userDomain[u] = None
    /\ Cardinality(Stored) >= 2
    /\ \A e \in Entities : entityDomain[e] # None
    /\ filter_by_domain(domains, entityDomain, InOrder(Entities), Caller(FALSE, None),
                        IdOrder(Stored)) = <<>>

\* C15: for a caller with is_staff, whatever the home domain (none
\* included), filter_by_domain returns the queryset as it is, rows without
\* a domain included, and user_can_access_domain and
\* user_can_access_entity are true for every domain and every entity.
C15_AdminBypass ==
    \A caller \in Callers : caller.is_staff =>
        /\ \A queryset \in Querysets : \A ord \in Perms(Stored) :
              filter_by_domain(domains, entityDomain, queryset, caller, ord) = queryset
        /\ \A d \in Stored : user_can_access_domain(domains, caller, d)
        /\ \A e \in Entities : user_can_access_entity(domains, entityDomain, caller, e)

C15_Witness ==
    \E caller \in Callers : \E e1, e2 \in Entities :
        /\ caller.is_staff /\ caller.domain # None
        /\ entityDomain[e1] = None
        /\ entityDomain[e2] # None
        /\ entityDomain[e2] \notin Subtree(domains, caller.domain)
        /\ user_can_access_entity(domains, entityDomain, caller, e1)
        /\ user_can_access_entity(domains, entityDomain, caller, e2)

\* C16: for a non-admin caller user_can_access_entity is false for every
\* entity without a domain and otherwise equals user_can_access_domain of
\* the entity's domain.
C16_EntityVisible ==
    \A caller \in Callers : ~caller.is_staff =>
        \A e \in Entities :
            user_can_access_entity(domains, entityDomain, caller, e)
                <=> (/\ entityDomain[e] # None
                     /\ user_can_access_domain(domains, caller, entityDomain[e]))

C16_Witness ==
    \E caller \in Callers : \E e1, e2 \in Entities :
        /\ ~caller.is_staff /\ caller.domain # None
        /\ entityDomain[e1] = None
        /\ entityDomain[e2] \in DescendantsOf(domains, caller.domain)
        /\ ~user_can_access_entity(domains, entityDomain, caller, e1)
        /\ user_can_access_entity(domains, entityDomain, caller, e2)

\* C17: a create whose parent id is the id of no stored node is refused
\* (NotFound: the serializer's does_not_exist failure) and leaves the table
\* as it was: neither the new node nor the missing parent is stored and no
\* stored node is changed.
C17_CreateNotFound ==
    \A p \in AllIds \ Stored :
        \A r \in perform_create(domains, entityDomain, userDomain, nextId, p) :
            /\ r.outcome = "NotFound"
            /\ r.db = domains
            /\ r.ed = entityDomain
            /\ r.ud = userDomain

C17_Witness ==
    \E p \in AllIds \ Stored :
        /\ p < nextId
        /\ Cardinality(Stored) >= 2
        /\ \E r \in perform_create(domains, entityDomain, userDomain, nextId, p) :
              r.outcome = "NotFound"

\* C18: a create stores the new node under an id no stored node has, with
\* the given parent and the path "/" when no parent is given and the
\* parent's path + the parent's id + "/" otherwise, and leaves the parent
\* and the path of every node stored before as they were.
C18_CreateFrame ==
    nextId \in AllIds =>
        \A p \in Stored \cup {None} :
            \A r \in perform_create(domains, entityDomain, userDomain, nextId, p) :
                /\ nextId \notin Stored
                /\ \A n \in Stored : n \in DOMAIN r.db /\ r.db[n] = domains[n]
                /\ r.outcome = "ok" =>
                      /\ DOMAIN r.db = Stored \cup {nextId}
                      /\ r.db[nextId].parent = p
                      /\ r.db[nextId].path =
                            IF p = None THEN <<"/">>
                            ELSE domains[p].path \o Str(p) \o <<"/">>

C18_Witness ==
    /\ nextId \in AllIds
    /\ \E p \in Stored :
          /\ domains[p].parent # None
          /\ \E r \in perform_create(domains, entityDomain, userDomain, nextId, p) :
                r.outcome = "ok" /\ r.db[nextId].path = domains[p].path \o Str(p) \o <<"/">>

\* C19: the count of a refused delete of x is the number of projects and
\* tasks whose domain is x or a descendant of x, and is at least 1.
C19_BlockedCount ==
    \A x \in Stored :
        LET r == perform_destroy(domains, entityDomain, userDomain, x)
        IN r.outcome = "Blocked" =>
              /\ r.count = Cardinality({e \in Entities :
                                /\ entityDomain[e] # None
                                /\ entityDomain[e] \in Subtree(domains, x)})
              /\ r.count >= 1

C19_Witness ==
    \E x \in Stored : \E e1, e2 \in Entities :
        /\ e1 # e2
        /\ entityDomain[e1] = entityDomain[e2]
        /\ entityDomain[e1] \in DescendantsOf(domains, x) \ {x}
        /\ perform_destroy(domains, entityDomain, userDomain, x).outcome = "Blocked"
        /\ perform_destroy(domains, entityDomain, userDomain, x).count = 2

\* C20: n.get_descendants() is exactly the set of stored nodes reached from
\* n through one or more child edges; it never holds n itself, nor a node
\* outside n's subtree whose id has n's id as a decimal prefix.
C20_DescendantsExact ==
    \A n \in Stored : \A ord \in Perms(Stored) :
        LET found == Range(get_descendants(domains, n, ord))
        IN /\ found = DescendantsOf(domains, n)
           /\ n \notin found
           /\ \A d \in Stored :
                 (/\ d # n
                  /\ StartsWith(Str(d), Str(n))
                  /\ n \notin AncestorsOf(domains, d)) => d \notin found

\* C21: n.get_ancestors() is the sequence of the nodes on n's parent chain
\* from the root down to n's parent; it never holds n and is empty when n
\* is a root.
C21_AncestorsOrdered ==
    \A n \in Stored : \A ord \in Perms(Stored) :
        LET found == get_ancestors(domains, n, ord)
        IN /\ found = ChainDown(domains, n, {})
           /\ \A i \in 1..Len(found) : found[i] # n
           /\ domains[n].parent = None => found = <<>>

\* C22: in every reachable state a.is_ancestor_of(a) is false for every
\* stored node a.
C22_Irreflexive == \A a \in Stored : ~is_ancestor_of(domains, a, a)

C22_Witness ==
    \E a, b \in Stored :
        /\ a # b
        /\ is_ancestor_of(domains, a, b)
        /\ domains[a].parent # None
        /\ ~is_ancestor_of(domains, a, a)
        /\ ~is_ancestor_of(domains, b, b)

\* C23: a.is_descendant_of(b) equals b.is_ancestor_of(a) for every pair of
\* stored nodes in every reachable state.
C23_DescendantIsAncestorSwapped ==
    \A a, b \in Stored :
        is_descendant_of(domains, a, b) <=> is_ancestor_of(domains, b, a)

C23_Witness ==
    \E a, b \in Stored :
        /\ is_descendant_of(domains, a, b)
        /\ ~is_descendant_of(domains, b, a)
        /\ domains[a].parent # b
        /\ is_ancestor_of(domains, b, a)

\* C24: a call of user_can_access_domain, get_user_accessible_domain_ids,
\* filter_by_domain or user_can_access_entity leaves every node's parent
\* and path, every entity's domain and every user's home domain as they
\* were.
C24_EvaluatorReadOnly == [][UNCHANGED <<domains, entityDomain, userDomain>>]_vars

C24_Witness ==
    /\ answer.call = "filter_by_domain"
    /\ Len(answer.value) = 1
    /\ \E e \in Entities : entityDomain[e] = None
    /\ \E u \in Users : userDomain[u] # None /\ domains[userDomain[u]].parent # None

\* C25: a save of an existing node whose parent is the one already stored
\* (a rename), issued from a copy read earlier while other requests run,
\* changes the stored path of no node.
C25_RenameKeepsPaths ==
    [][\A pr \in Procs :
          (/\ procs[pr].pc = "write"
           /\ procs'[pr].pc = "idle"
           /\ procs[pr].old_parent = procs[pr].parent
           /\ domains[procs[pr].x].parent = procs[pr].parent)
          => \A n \in Stored :
                n \in DOMAIN domains' /\ domains'[n].path = domains[n].path]_vars

\* C26: for every non-admin caller and every entity e, filter_by_domain
\* keeps e from the queryset holding just e exactly when
\* user_can_access_entity is true of e.
C26_FilterAgreesWithEntityCheck ==
    \A caller \in Callers : ~caller.is_staff =>
        \A e \in Entities : \A ord \in Perms(Stored) :
            (filter_by_domain(domains, entityDomain, <<e>>, caller, ord) = <<e>>)
                <=> user_can_access_entity(domains, entityDomain, caller, e)

C26_Witness ==
    \E caller \in Callers : \E e1, e2 \in Entities :
        /\ ~caller.is_staff /\ caller.domain # None
        /\ domains[caller.domain].parent # None
        /\ entityDomain[e1] = caller.domain
        /\ entityDomain[e2] = domains[caller.domain].parent
        /\ user_can_access_entity(domains, entityDomain, caller, e1)
        /\ filter_by_domain(domains, entityDomain, <<e1, e2>>, caller,
                            IdOrder(Stored)) = <<e1>>

\* C27: the walk of a move of x under p writes the path of no row more
\* than once, and when the move returns with the parent changed it has
\* written the path of every descendant of x exactly once and of no other
\* row.
C27_MoveTerminates ==
    \A x \in Stored : \A p \in Stored \cup {None} :
        \A r \in save_outcomes(domains, nextId,
                      Instance(x, p, domains[x].path,
                               IF p = None THEN <<>> ELSE domains[p].path)) :
            /\ \A d \in Stored : Times(r.written, d) <= 1
            /\ (r.err = NoError /\ domains[x].parent # p) =>
                  \A d \in Stored :
                      Times(r.written, d) =
                          IF d \in DescendantsOf(domains, x) THEN 1 ELSE 0

\* C28: after a successful move of x under p every node that is neither x
\* nor a descendant of x has the parent and the path it had, and every
\* descendant of x has the parent it had.
C28_MoveTouchesOnlySubtree ==
    \A x \in Stored : \A p \in Stored \cup {None} :
        \A r \in perform_update(domains, entityDomain, userDomain, nextId, x, p) :
            r.outcome = "ok" =>
                /\ DOMAIN r.db = Stored
                /\ \A n \in Stored \ Subtree(domains, x) : r.db[n] = domains[n]
                /\ \A n \in DescendantsOf(domains, x) \ {x} :
                      r.db[n].parent = domains[n].parent

C28_Witness ==
    \E x, p \in Stored :
        /\ p \notin Subtree(domains, x)
        /\ domains[x].parent # p
        /\ DescendantsOf(domains, x) \ {x} # {}
        /\ \E r \in perform_update(domains, entityDomain, userDomain, nextId, x, p) :
              /\ r.outcome = "ok"
              /\ r.db[x].path # domains[x].path
              /\ r.db[p] = domains[p]

\* C29: in every reachable state every node's parent, every project's and
\* task's domain and every user's home domain is absent or a stored node.
C29_ReferentialIntegrity ==
    /\ \A n \in Stored : domains[n].parent = None \/ domains[n].parent \in Stored
    /\ \A e \in Entities : entityDomain[e] = None \/ entityDomain[e] \in Stored
    /\ \A u \in Users : userDomain[u] = None \/ userDomain[u] \in Stored

C29_Witness ==
    /\ \E i \in AllIds : i < nextId /\ i \notin Stored
    /\ \E n \in Stored : domains[n].parent # None
    /\ \E e \in Entities : entityDomain[e] # None
    /\ \E u \in Users : userDomain[u] # None

\* C30: a move of x under the parent it already has changes no parent and
\* no path, and a move of x under p applied a second time leaves the table
\* the first application left.
C30_MoveIdempotent ==
    \A x \in Stored :
        /\ \A r \in perform_update(domains, entityDomain, userDomain, nextId, x,
                                    domains[x].parent) :
              r.outcome = "ok" /\ r.db = domains
        /\ \A p \in Stored \cup {None} :
              \A r1 \in perform_update(domains, entityDomain, userDomain, nextId, x, p) :
                  \A r2 \in perform_update(r1.db, r1.ed, r1.ud, nextId, x, p) :
                      r2.db = r1.db

C30_Witness ==
    \E x, p \in Stored :
        /\ p \notin Subtree(domains, x)
        /\ domains[x].parent # p
        /\ DescendantsOf(domains, x) \ {x} # {}
        /\ \E r1 \in perform_update(domains, entityDomain, userDomain, nextId, x, p) :
              /\ r1.outcome = "ok"
              /\ r1.db # domains
              /\ \A r2 \in perform_update(r1.db, r1.ed, r1.ud, nextId, x, p) :
                    r2.outcome = "ok" /\ r2.db = r1.db

====
